---- MODULE Spec2Model ----
(***************************************************************************)
(* Model of the HappyFares chat backend: the /chat handler                 *)
(* (app/api/chat.py), the rule-based interpreter LLMClient._mock_response  *)
(* and the real-model reply handling (app/core/llm-client.py), the excerpt *)
(* verifier (app/core/verifier.py) and the session context store           *)
(* (app/core/redis-client.py, app/core/redis_client.py).                   *)
(*                                                                         *)
(* Python strings are sequences of one-character strings.  JSON values are *)
(* records [t, n, s, items] with t the JSON type; a JSON object is the     *)
(* sequence of its <<key, value>> pairs in insertion order.                *)
(***************************************************************************)
EXTENDS Integers, Sequences, FiniteSets, TLC

VARIABLES
    pc, session, question, context,   \* the /chat request being handled
    store,                            \* session key -> stored context blob
    use_mock,                         \* LLMClient.use_mock after __init__
    llm_calls,                        \* calls of llm.get_response this turn
    stored_ok,                        \* outcome of this turn's set_context
    response,                         \* what llm.get_response returned
    result,                           \* the ChatResponse sent back
    iq, ictx, ires, ipc,              \* one call of _mock_response
    vblob, vexcerpt, vres, vpc        \* one call of verify_excerpt

vars == << pc, session, question, context, store, use_mock, llm_calls,
           stored_ok, response, result, iq, ictx, ires, ipc,
           vblob, vexcerpt, vres, vpc >>

chatVars   == << pc, session, question, context, store, use_mock, llm_calls,
                 stored_ok, response, result >>
mockVars   == << iq, ictx, ires, ipc >>
verifyVars == << vblob, vexcerpt, vres, vpc >>

----------------------------------------------------------------------------
(* Bounds of the explored inputs.                                          *)

MaxCards == 2          \* records in a context given to _mock_response
MaxCtx == 1            \* records in a context sent to /chat
MaxBlobLen == 3        \* characters of a blob given to verify_excerpt
MaxExcerptLen == 2     \* characters of an excerpt given to verify_excerpt

----------------------------------------------------------------------------
(* Python str operations.                                                  *)

WhiteSpace == {" ", "\t", "\n", "\r", "\f"}

UpperChars == << "A","B","C","D","E","F","G","H","I","J","K","L","M",
                 "N","O","P","Q","R","S","T","U","V","W","X","Y","Z" >>
LowerChars == << "a","b","c","d","e","f","g","h","i","j","k","l","m",
                 "n","o","p","q","r","s","t","u","v","w","x","y","z" >>
DigitChars == << "0","1","2","3","4","5","6","7","8","9" >>

IsDigit(c) == \E i \in 1..10 : DigitChars[i] = c
DigitVal(c) == (CHOOSE i \in 1..10 : DigitChars[i] = c) - 1

LowerChar(c) ==
    IF \E i \in 1..26 : UpperChars[i] = c
    THEN LowerChars[CHOOSE i \in 1..26 : UpperChars[i] = c]
    ELSE c
UpperChar(c) ==
    IF \E i \in 1..26 : LowerChars[i] = c
    THEN UpperChars[CHOOSE i \in 1..26 : LowerChars[i] = c]
    ELSE c

\* s.lower(), s.upper()
Lower(s) == [i \in 1..Len(s) |-> LowerChar(s[i])]
Upper(s) == [i \in 1..Len(s) |-> UpperChar(s[i])]

\* lit occurs in s starting at index i
At(s, i, lit) ==
    /\ i >= 1
    /\ i + Len(lit) - 1 <= Len(s)
    /\ \A j \in 1..Len(lit) : s[i + j - 1] = lit[j]

\* `sub in s' on two str
Contains(s, sub) == \E i \in 1..(Len(s) - Len(sub) + 1) : At(s, i, sub)

\* s.split(): the maximal runs of non-whitespace characters, in order
RECURSIVE SplitFrom(_, _, _)
SplitFrom(s, i, word) ==
    IF i > Len(s)
    THEN IF word = << >> THEN << >> ELSE << word >>
    ELSE IF s[i] \in WhiteSpace
         THEN IF word = << >>
              THEN SplitFrom(s, i + 1, << >>)
              ELSE << word >> \o SplitFrom(s, i + 1, << >>)
         ELSE SplitFrom(s, i + 1, Append(word, s[i]))
Split(s) == SplitFrom(s, 1, << >>)

\* " ".join(words)
RECURSIVE JoinSpace(_)
JoinSpace(words) ==
    IF words = << >> THEN << >>
    ELSE IF Len(words) = 1 THEN words[1]
    ELSE words[1] \o << " " >> \o JoinSpace(Tail(words))

\* s.strip()
RECURSIVE LStrip(_)
LStrip(s) ==
    IF s # << >> /\ s[1] \in WhiteSpace THEN LStrip(Tail(s)) ELSE s
RECURSIVE RStrip(_)
RStrip(s) ==
    IF s # << >> /\ s[Len(s)] \in WhiteSpace
    THEN RStrip(SubSeq(s, 1, Len(s) - 1)) ELSE s
Strip(s) == RStrip(LStrip(s))

\* number of consecutive characters of s from index i that lie in set
RECURSIVE Run(_, _, _)
Run(s, i, set) ==
    IF i <= Len(s) /\ s[i] \in set THEN 1 + Run(s, i + 1, set) ELSE 0

Digits == {DigitChars[i] : i \in 1..10}

\* the decimal text of a natural number
RECURSIVE NatText(_)
NatText(n) ==
    IF n < 10 THEN << DigitChars[n + 1] >>
    ELSE NatText(n \div 10) \o << DigitChars[(n % 10) + 1] >>
IntText(n) == IF n < 0 THEN << "-" >> \o NatText(-n) ELSE NatText(n)

\* the value of a text of decimal digits
RECURSIVE DigitsValue(_)
DigitsValue(s) ==
    IF s = << >> THEN 0
    ELSE 10 * DigitsValue(SubSeq(s, 1, Len(s) - 1)) + DigitVal(s[Len(s)])

----------------------------------------------------------------------------
(* app/core/verifier.py                                                    *)

\* " ".join(x.lower().split())
Normalize(x) == JoinSpace(Split(Lower(x)))

\* the verifier without its normalized second check
verify_exact_only(context_blob, excerpt) ==
    IF excerpt = << >> \/ context_blob = << >>
    THEN FALSE
    ELSE Contains(context_blob, excerpt)

verify_excerpt(context_blob, excerpt) ==
    IF excerpt = << >> \/ context_blob = << >>
    THEN FALSE
    ELSE IF Contains(context_blob, excerpt)
         THEN TRUE
         ELSE Contains(Normalize(context_blob), Normalize(excerpt))

----------------------------------------------------------------------------
(* JSON values, json.dumps, str() and truthiness.                          *)

JNull == [t |-> "null", n |-> 0, s |-> << >>, items |-> << >>]
JNum(n) == [t |-> "num", n |-> n, s |-> << >>, items |-> << >>]
JStr(s) == [t |-> "str", n |-> 0, s |-> s, items |-> << >>]
JList(items) == [t |-> "list", n |-> 0, s |-> << >>, items |-> items]
\* a dict: items is the sequence of its <<key, value>> pairs
JObj(items) == [t |-> "obj", n |-> 0, s |-> << >>, items |-> items]

\* the characters of each string literal used below: the keys, words and
\* texts of the source, and the texts of the requests explored
Chars ==
    "price" :>
        << "p","r","i","c","e" >> @@
    "fare" :>
        << "f","a","r","e" >> @@
    "amount" :>
        << "a","m","o","u","n","t" >> @@
    "airline" :>
        << "a","i","r","l","i","n","e" >> @@
    "carrier" :>
        << "c","a","r","r","i","e","r" >> @@
    "airline_name" :>
        << "a","i","r","l","i","n","e","_","n","a","m","e" >> @@
    "departure_time" :>
        << "d","e","p","a","r","t","u","r","e","_","t","i","m","e" >> @@
    "dep_time" :>
        << "d","e","p","_","t","i","m","e" >> @@
    "departure" :>
        << "d","e","p","a","r","t","u","r","e" >> @@
    "departureAt" :>
        << "d","e","p","a","r","t","u","r","e","A","t" >> @@
    "dep" :>
        << "d","e","p" >> @@
    "segments" :>
        << "s","e","g","m","e","n","t","s" >> @@
    "None" :>
        << "N","o","n","e" >> @@
    "True" :>
        << "T","r","u","e" >> @@
    "False" :>
        << "F","a","l","s","e" >> @@
    "null" :>
        << "n","u","l","l" >> @@
    "true" :>
        << "t","r","u","e" >> @@
    "false" :>
        << "f","a","l","s","e" >> @@
    "after" :>
        << "a","f","t","e","r" >> @@
    "am" :>
        << "a","m" >> @@
    "pm" :>
        << "p","m" >> @@
    "AM" :>
        << "A","M" >> @@
    "PM" :>
        << "P","M" >> @@
    "air" :>
        << "a","i","r" >> @@
    "india" :>
        << "i","n","d","i","a" >> @@
    "indigo" :>
        << "i","n","d","i","g","o" >> @@
    "spicejet" :>
        << "s","p","i","c","e","j","e","t" >> @@
    "vistara" :>
        << "v","i","s","t","a","r","a" >> @@
    "airasia" :>
        << "a","i","r","a","s","i","a" >> @@
    "goair" :>
        << "g","o","a","i","r" >> @@
    "go air" :>
        << "g","o"," ","a","i","r" >> @@
    "Unknown Airline" :>
        << "U","n","k","n","o","w","n"," ","A","i","r","l","i","n","e" >> @@
    "Unknown" :>
        << "U","n","k","n","o","w","n" >> @@
    "Cheapest flight" :>
        << "C","h","e","a","p","e","s","t"," ","f","l","i","g","h","t" >> @@
    " from " :>
        << " ","f","r","o","m"," " >> @@
    " is " :>
        << " ","i","s"," " >> @@
    ", departs at " :>
        << ","," ","d","e","p","a","r","t","s"," ","a","t"," " >> @@
    ", price " :>
        << ","," ","p","r","i","c","e"," " >> @@
    "session:" :>
        << "s","e","s","s","i","o","n",":" >> @@
    ":context" :>
        << ":","c","o","n","t","e","x","t" >> @@
    "cheapest flight" :>
        << "c","h","e","a","p","e","s","t"," ","f","l","i","g","h","t" >> @@
    "Which is the cheapest Air India flight after 6 pm?" :>
        << "W","h","i","c","h"," ","i","s"," ","t","h","e"," ","c","h","e",
           "a","p","e","s","t"," ","A","i","r"," ","I","n","d","i","a"," ",
           "f","l","i","g","h","t"," ","a","f","t","e","r"," ","6"," ","p",
           "m","?" >> @@
    "cheapest flight after 11 pm" :>
        << "c","h","e","a","p","e","s","t"," ","f","l","i","g","h","t"," ",
           "a","f","t","e","r"," ","1","1"," ","p","m" >> @@
    "Cheapest IndiGo flight?" :>
        << "C","h","e","a","p","e","s","t"," ","I","n","d","i","G","o"," ",
           "f","l","i","g","h","t","?" >> @@
    "any vistara flight" :>
        << "a","n","y"," ","v","i","s","t","a","r","a"," ","f","l","i","g",
           "h","t" >> @@
    "flights after\\s\\d\\pm" :>
        << "f","l","i","g","h","t","s"," ","a","f","t","e","r","\\","s",
           "\\","d","\\","p","m" >> @@
    "cheapest air\\sindia" :>
        << "c","h","e","a","p","e","s","t"," ","a","i","r","\\","s","i","n",
           "d","i","a" >> @@
    "Air India" :>
        << "A","i","r"," ","I","n","d","i","a" >> @@
    "IndiGo" :>
        << "I","n","d","i","G","o" >> @@
    "Vistara" :>
        << "V","i","s","t","a","r","a" >> @@
    "Air\\sIndia" :>
        << "A","i","r","\\","s","I","n","d","i","a" >> @@
    "7:00 PM" :>
        << "7",":","0","0"," ","P","M" >> @@
    "5:00 PM" :>
        << "5",":","0","0"," ","P","M" >> @@
    "23:30" :>
        << "2","3",":","3","0" >> @@
    "$4,500" :>
        << "$","4",",","5","0","0" >> @@
    "\\d" :>
        << "\\","d" >> @@
    "ok" :>
        << "o","k" >> @@
    "air india" :>
        << "a","i","r"," ","i","n","d","i","a" >> @@
    "airindia" :>
        << "a","i","r","i","n","d","i","a" >> @@
    "s1" :>
        << "s","1" >> @@
    "s2" :>
        << "s","2" >> @@
    "no idea" :>
        << "n","o"," ","i","d","e","a" >> @@
    "see \\{x\\} ok\\nbye" :>
        << "s","e","e"," ","\\","{","x","\\","}"," ","o","k","\\","n","b",
           "y","e" >> @@
    "[1]" :>
        << "[","1","]" >>

\* bool(v)
Truthy(v) ==
    CASE v.t = "null" -> FALSE
      [] v.t = "bool" -> v.n = 1
      [] v.t = "num" -> v.n # 0
      [] v.t = "str" -> v.s # << >>
      [] OTHER -> v.items # << >>

\* k in d, d.get(k) for a dict d
HasKey(d, k) == \E i \in 1..Len(d.items) : d.items[i][1] = k
Get(d, k) ==
    IF HasKey(d, k)
    THEN d.items[CHOOSE i \in 1..Len(d.items) : d.items[i][1] = k][2]
    ELSE JNull

\* a or b or c: the first truthy operand, else the last one
RECURSIVE PyOr(_)
PyOr(vals) ==
    IF Len(vals) = 1 \/ Truthy(vals[1]) THEN vals[1] ELSE PyOr(Tail(vals))

\* the escapes json.dumps(..., ensure_ascii=False) writes inside a string
JsonEscapeChar(c) ==
    CASE c = "\"" -> << "\\", "\"" >>
      [] c = "\\" -> << "\\", "\\" >>
      [] c = "\n" -> << "\\", "n" >>
      [] c = "\t" -> << "\\", "t" >>
      [] c = "\r" -> << "\\", "r" >>
      [] c = "\f" -> << "\\", "f" >>
      [] OTHER -> << c >>
RECURSIVE JsonEscape(_)
JsonEscape(s) ==
    IF s = << >> THEN << >> ELSE JsonEscapeChar(s[1]) \o JsonEscape(Tail(s))
JsonString(s) == << "\"" >> \o JsonEscape(s) \o << "\"" >>

\* json.dumps(v, ensure_ascii=False) with the default separators ", " and ": "
RECURSIVE json_dumps(_)
RECURSIVE DumpItems(_, _, _)
DumpItems(items, i, isObj) ==
    IF i > Len(items) THEN << >>
    ELSE (IF i > 1 THEN << ",", " " >> ELSE << >>)
         \o (IF isObj
             THEN JsonString(items[i][1]) \o << ":", " " >> \o json_dumps(items[i][2])
             ELSE json_dumps(items[i]))
         \o DumpItems(items, i + 1, isObj)
json_dumps(v) ==
    CASE v.t = "null" -> Chars["null"]
      [] v.t = "bool" -> IF v.n = 1 THEN Chars["true"] ELSE Chars["false"]
      [] v.t = "num" -> IntText(v.n)
      [] v.t = "str" -> JsonString(v.s)
      [] v.t = "list" -> << "[" >> \o DumpItems(v.items, 1, FALSE) \o << "]" >>
      [] OTHER -> << "{" >> \o DumpItems(v.items, 1, TRUE) \o << "}" >>

\* repr() of a str: single quotes unless the text holds ' and no "
PyReprChar(c, quote) ==
    CASE c = "\\" -> << "\\", "\\" >>
      [] c = quote -> << "\\", c >>
      [] c = "\n" -> << "\\", "n" >>
      [] c = "\t" -> << "\\", "t" >>
      [] c = "\r" -> << "\\", "r" >>
      [] OTHER -> << c >>
RECURSIVE PyReprChars(_, _)
PyReprChars(s, quote) ==
    IF s = << >> THEN << >>
    ELSE PyReprChar(s[1], quote) \o PyReprChars(Tail(s), quote)
ReprQuote(s) ==
    IF Contains(s, << "'" >>) /\ ~Contains(s, << "\"" >>) THEN "\"" ELSE "'"
PyReprStr(s) ==
    << ReprQuote(s) >> \o PyReprChars(s, ReprQuote(s)) \o << ReprQuote(s) >>

\* repr(v) and str(v)
RECURSIVE PyRepr(_)
RECURSIVE ReprItems(_, _, _)
ReprItems(items, i, isObj) ==
    IF i > Len(items) THEN << >>
    ELSE (IF i > 1 THEN << ",", " " >> ELSE << >>)
         \o (IF isObj
             THEN PyReprStr(items[i][1]) \o << ":", " " >> \o PyRepr(items[i][2])
             ELSE PyRepr(items[i]))
         \o ReprItems(items, i + 1, isObj)
PyRepr(v) ==
    CASE v.t = "null" -> Chars["None"]
      [] v.t = "bool" -> IF v.n = 1 THEN Chars["True"] ELSE Chars["False"]
      [] v.t = "num" -> IntText(v.n)
      [] v.t = "str" -> PyReprStr(v.s)
      [] v.t = "list" -> << "[" >> \o ReprItems(v.items, 1, FALSE) \o << "]" >>
      [] OTHER -> << "{" >> \o ReprItems(v.items, 1, TRUE) \o << "}" >>
PyStr(v) == IF v.t = "str" THEN v.s ELSE PyRepr(v)

\* s.replace(old, "") for a one-character old
RECURSIVE RemoveChar(_, _)
RemoveChar(s, old) ==
    IF s = << >> THEN << >>
    ELSE (IF s[1] = old THEN << >> ELSE << s[1] >>) \o RemoveChar(Tail(s), old)

\* results of a call that may return a value, return None, or raise
Val(v) == [st |-> "val", v |-> v]
None == [st |-> "none", v |-> 0]
Raise == [st |-> "raise", v |-> 0]

\* int(text) and float(text) of a regex group: the value of a text of decimal
\* digits, ValueError otherwise (the groups passed here hold no sign, no
\* point and no blanks unless the text is not a number at all)
PyInt(text) ==
    IF text # << >> /\ \A i \in 1..Len(text) : IsDigit(text[i])
    THEN Val(DigitsValue(text)) ELSE Raise
PyFloat(text) == PyInt(text)

----------------------------------------------------------------------------
(* app/core/llm-client.py: LLMClient._mock_response and its helpers.       *)
(* The regular expressions are matched as the source writes them: in a raw *)
(* string, \\ is a literal backslash, so \\d+ is a backslash followed by   *)
(* one or more letters d, and \\s* a backslash followed by letters s.      *)

NotFoundAnswer ==
    << "I"," ","c","a","n","n","o","t"," ","f","i","n","d"," ","t","h","a",
       "t"," ","i","n","f","o","r","m","a","t","i","o","n"," ","o","n"," ",
       "t","h","i","s"," ","p","a","g","e","." >>
CannotProcessAnswer ==
    << "I"," ","c","a","n","n","o","t"," ","p","r","o","c","e","s","s"," ",
       "y","o","u","r"," ","q","u","e","s","t","i","o","n"," ","r","i","g",
       "h","t"," ","n","o","w","." >>

\* a regex match: the index it starts at and its text; start 0 is no match
NoMatch == [start |-> 0, text |-> << >>]
Match(s, i, n) == [start |-> i, text |-> SubSeq(s, i, i + n - 1)]

\* re.search tries the start positions left to right: every search below
\* takes the leftmost index at which its pattern matches.

\* r"(\\d+(?:\\.\\d+)?)" at index i: a backslash and letters d, then
\* optionally a backslash, any character but a newline, a backslash and
\* letters d.  The length matched, 0 if none.
PriceTokenHead(s, i) ==
    IF At(s, i, << "\\" >>) THEN Run(s, i + 1, {"d"}) ELSE 0
PriceTokenTail(s, j) ==
    IF /\ At(s, j, << "\\" >>)
       /\ j + 1 <= Len(s) /\ s[j + 1] # "\n"
       /\ At(s, j + 2, << "\\" >>)
       /\ Run(s, j + 3, {"d"}) >= 1
    THEN 3 + Run(s, j + 3, {"d"}) ELSE 0
PriceTokenLen(s, i) ==
    IF PriceTokenHead(s, i) = 0 THEN 0
    ELSE 1 + PriceTokenHead(s, i)
           + PriceTokenTail(s, i + 1 + PriceTokenHead(s, i))
RECURSIVE PriceTokenFrom(_, _)
PriceTokenFrom(s, i) ==
    IF i > Len(s) THEN NoMatch
    ELSE IF PriceTokenLen(s, i) > 0 THEN Match(s, i, PriceTokenLen(s, i))
    ELSE PriceTokenFrom(s, i + 1)
PriceTokenSearch(s) == PriceTokenFrom(s, 1)

\* line 125
PriceOfMatch(m) == IF m.start > 0 THEN PyFloat(m.text) ELSE None

parse_price(p) ==
    IF p.t \in {"num", "bool"}
    THEN Val(p.n)
    ELSE PriceOfMatch(PriceTokenSearch(RemoveChar(PyStr(p), ",")))

\* `k in seg' and `seg[k]' for the first element of card["segments"]
SegHas(seg, k) ==
    CASE seg.t = "obj" -> Val(HasKey(seg, k))
      [] seg.t = "list" -> Val(\E i \in 1..Len(seg.items) : seg.items[i] = JStr(k))
      [] seg.t = "str" -> Val(Contains(seg.s, k))
      [] OTHER -> Raise
SegItem(seg, k) == IF seg.t = "obj" THEN Val(Get(seg, k)) ELSE Raise

TopDepKeys == << Chars["departure_time"], Chars["dep_time"], Chars["departure"],
        Chars["departureAt"], Chars["dep"] >>
SegDepKeys == << Chars["dep_time"], Chars["departure_time"], Chars["departure"] >>

\* lines 133-135 from key i on
RECURSIVE SegDep(_, _)
SegDep(seg, i) ==
    IF i > Len(SegDepKeys) THEN None
    ELSE IF SegHas(seg, SegDepKeys[i]).st = "raise" THEN Raise
    ELSE IF ~SegHas(seg, SegDepKeys[i]).v THEN SegDep(seg, i + 1)
    ELSE IF SegItem(seg, SegDepKeys[i]).st = "raise" THEN Raise
    ELSE IF Truthy(SegItem(seg, SegDepKeys[i]).v)
         THEN Val(PyStr(SegItem(seg, SegDepKeys[i]).v))
    ELSE SegDep(seg, i + 1)

\* lines 128-130 from key i on
RECURSIVE TopDep(_, _)
TopDep(card, i) ==
    IF i > Len(TopDepKeys) THEN None
    ELSE IF Truthy(Get(card, TopDepKeys[i]))
         THEN Val(PyStr(Get(card, TopDepKeys[i])))
    ELSE TopDep(card, i + 1)

get_dep_time(card) ==
    IF TopDep(card, 1).st = "val" THEN TopDep(card, 1)
    ELSE IF /\ HasKey(card, Chars["segments"])
            /\ Get(card, Chars["segments"]).t = "list"
            /\ Get(card, Chars["segments"]).items # << >>
         THEN SegDep(Get(card, Chars["segments"]).items[1], 1)
         ELSE None

\* datetime.strptime(u, fmt): a %I, %H or %M field takes the whole run of
\* digits at its place, one or two of them, with a value in its range
InRange(text, lo, hi) ==
    /\ Len(text) \in {1, 2}
    /\ DigitsValue(text) >= lo
    /\ DigitsValue(text) <= hi

\* the hour of a 12-hour clock reading and its AM/PM mark
Hour12(h, mark) ==
    IF mark = Chars["AM"] THEN (IF h = 12 THEN 0 ELSE h)
    ELSE (IF h = 12 THEN 12 ELSE h + 12)

\* "%I:%M %p": n1 hour digits, a colon, n2 minute digits, w blanks, the mark
IMpFields(u, n1, n2, w) ==
    IF /\ InRange(SubSeq(u, 1, n1), 1, 12)
       /\ At(u, n1 + 1, << ":" >>)
       /\ InRange(SubSeq(u, n1 + 2, n1 + 1 + n2), 0, 59)
       /\ w >= 1
       /\ SubSeq(u, n1 + 2 + n2 + w, Len(u)) \in {Chars["AM"], Chars["PM"]}
    THEN Val(Hour12(DigitsValue(SubSeq(u, 1, n1)),
                    SubSeq(u, n1 + 2 + n2 + w, Len(u))) * 60
             + DigitsValue(SubSeq(u, n1 + 2, n1 + 1 + n2)))
    ELSE None
IMpMinute(u, n1, n2) == IMpFields(u, n1, n2, Run(u, n1 + 2 + n2, WhiteSpace))
IMpHour(u, n1) == IMpMinute(u, n1, Run(u, n1 + 2, Digits))
StrptimeIMp(u) == IMpHour(u, Run(u, 1, Digits))

\* "%I %p"
IpFields(u, n1, w) ==
    IF /\ InRange(SubSeq(u, 1, n1), 1, 12)
       /\ w >= 1
       /\ SubSeq(u, n1 + 1 + w, Len(u)) \in {Chars["AM"], Chars["PM"]}
    THEN Val(Hour12(DigitsValue(SubSeq(u, 1, n1)),
                    SubSeq(u, n1 + 1 + w, Len(u))) * 60)
    ELSE None
IpHour(u, n1) == IpFields(u, n1, Run(u, n1 + 1, WhiteSpace))
StrptimeIp(u) == IpHour(u, Run(u, 1, Digits))

\* "%H:%M"
HMFields(u, n1, n2) ==
    IF /\ InRange(SubSeq(u, 1, n1), 0, 23)
       /\ At(u, n1 + 1, << ":" >>)
       /\ InRange(SubSeq(u, n1 + 2, n1 + 1 + n2), 0, 59)
       /\ n1 + 1 + n2 = Len(u)
    THEN Val(DigitsValue(SubSeq(u, 1, n1)) * 60
             + DigitsValue(SubSeq(u, n1 + 2, n1 + 1 + n2)))
    ELSE None
HMHour(u, n1) == HMFields(u, n1, Run(u, n1 + 2, Digits))
StrptimeHM(u) == HMHour(u, Run(u, 1, Digits))

\* "%H"
StrptimeH(u) ==
    IF Run(u, 1, Digits) = Len(u) /\ InRange(u, 0, 23)
    THEN Val(DigitsValue(u) * 60)
    ELSE None

\* r"(\\d{1,2})(?::(\\d{2}))?\\s*(am|pm)?" at index i: a backslash and one
\* or two letters d (ending before index j), optionally a colon, a backslash
\* and two letters d, then a backslash and letters s, then optionally am or
\* pm.  len is 0 if there is no match.
NoToken == [len |-> 0, hour |-> << >>, minute |-> << >>, mark |-> << >>]
TimeColon(s, j) ==
    At(s, j, << ":", "\\", "d", "d" >>) /\ At(s, j + 4, << "\\" >>)
TimeSlash(s, j) == IF TimeColon(s, j) THEN j + 4 ELSE j
TimeEnd(s, j) == TimeSlash(s, j) + 1 + Run(s, TimeSlash(s, j) + 1, {"s"})
TimeMark(s, j) ==
    IF At(s, TimeEnd(s, j), Chars["am"]) THEN Chars["am"]
    ELSE IF At(s, TimeEnd(s, j), Chars["pm"]) THEN Chars["pm"]
    ELSE << >>
TimeToken(s, i, j) ==
    IF /\ At(s, i, << "\\" >>)
       /\ (j - i - 1) \in {1, 2}
       /\ At(s, TimeSlash(s, j), << "\\" >>)
    THEN [len |-> TimeEnd(s, j) + Len(TimeMark(s, j)) - i,
          hour |-> SubSeq(s, i, j - 1),
          minute |-> IF TimeColon(s, j) THEN SubSeq(s, j + 1, j + 3) ELSE << >>,
          mark |-> TimeMark(s, j)]
    ELSE NoToken
TimeTokenAt(s, i) == TimeToken(s, i, i + 1 + Run(s, i + 1, {"d"}))
RECURSIVE TimeTokenFrom(_, _)
TimeTokenFrom(s, i) ==
    IF i > Len(s) THEN NoToken
    ELSE IF TimeTokenAt(s, i).len > 0 THEN TimeTokenAt(s, i)
    ELSE TimeTokenFrom(s, i + 1)

\* lines 154-157
AmPmHour(h, mark) ==
    IF mark = Chars["pm"] /\ h # 12 THEN h + 12
    ELSE IF mark = Chars["am"] /\ h = 12 THEN 0
    ELSE h

\* lines 150-159: h and mm are int() of groups 1 and 2
TokenMinutes(m, h, mm) ==
    IF h.st = "raise" \/ mm.st = "raise" THEN Raise
    ELSE Val(AmPmHour(h.v, m.mark) * 60 + mm.v)
FallbackMinutes(m) ==
    IF m.len = 0 THEN None
    ELSE TokenMinutes(m, PyInt(m.hour),
                      IF m.minute # << >> THEN PyInt(m.minute) ELSE Val(0))

\* lines 142-159 on the stripped text: u its upper case, low its lower case
ParseStripped(u, low) ==
    IF StrptimeIMp(u).st = "val" THEN StrptimeIMp(u)
    ELSE IF StrptimeIp(u).st = "val" THEN StrptimeIp(u)
    ELSE IF StrptimeHM(u).st = "val" THEN StrptimeHM(u)
    ELSE IF StrptimeH(u).st = "val" THEN StrptimeH(u)
    ELSE FallbackMinutes(TimeTokenFrom(low, 1))

\* t is None or Val(text)
parse_time_to_minutes(t) ==
    IF t.st # "val" THEN None
    ELSE IF t.v = << >> THEN None
    ELSE ParseStripped(Upper(Strip(t.v)), Lower(Strip(t.v)))

\* re.search(r"after\\s+(\\d{1,2}(?::\\d{2})?\\s*(?:am|pm)?)", q): group 1,
\* which starts at index g when the match starts at index i
AfterAt(q, i, g) ==
    IF /\ At(q, i, Chars["after"])
       /\ At(q, i + Len(Chars["after"]), << "\\" >>)
       /\ g - (i + Len(Chars["after"]) + 1) >= 1
       /\ TimeTokenAt(q, g).len > 0
    THEN Match(q, g, TimeTokenAt(q, g).len)
    ELSE NoMatch
RECURSIVE AfterFrom(_, _)
AfterFrom(q, i) ==
    IF i > Len(q) THEN NoMatch
    ELSE IF AfterAt(q, i, i + Len(Chars["after"]) + 1
                          + Run(q, i + Len(Chars["after"]) + 1, {"s"})).start > 0
         THEN AfterAt(q, i, i + Len(Chars["after"]) + 1
                            + Run(q, i + Len(Chars["after"]) + 1, {"s"}))
    ELSE AfterFrom(q, i + 1)
AfterSearch(q) == AfterFrom(q, 1)

\* re.search(r"(air\\s*india|indigo|spicejet|vistara|airasia|goair|go air)", q)
AirlineWords == << Chars["indigo"], Chars["spicejet"], Chars["vistara"],
        Chars["airasia"], Chars["goair"], Chars["go air"] >>
AirIndiaLen(q, i, ns) ==
    IF /\ At(q, i, Chars["air"])
       /\ At(q, i + Len(Chars["air"]), << "\\" >>)
       /\ At(q, i + Len(Chars["air"]) + 1 + ns, Chars["india"])
    THEN Len(Chars["air"]) + 1 + ns + Len(Chars["india"])
    ELSE 0
RECURSIVE AirlineWordLen(_, _, _)
AirlineWordLen(q, i, w) ==
    IF w > Len(AirlineWords) THEN 0
    ELSE IF At(q, i, AirlineWords[w]) THEN Len(AirlineWords[w])
    ELSE AirlineWordLen(q, i, w + 1)
AirlineLen(q, i) ==
    IF AirIndiaLen(q, i, Run(q, i + Len(Chars["air"]) + 1, {"s"})) > 0
    THEN AirIndiaLen(q, i, Run(q, i + Len(Chars["air"]) + 1, {"s"}))
    ELSE AirlineWordLen(q, i, 1)
RECURSIVE AirlineFrom(_, _)
AirlineFrom(q, i) ==
    IF i > Len(q) THEN NoMatch
    ELSE IF AirlineLen(q, i) > 0 THEN Match(q, i, AirlineLen(q, i))
    ELSE AirlineFrom(q, i + 1)
AirlineSearch(q) == AirlineFrom(q, 1)

PriceKeys == << Chars["price"], Chars["fare"], Chars["amount"] >>
AirlineKeys == << Chars["airline"], Chars["carrier"], Chars["airline_name"] >>

\* card.get(k1) or card.get(k2) or card.get(k3)
GetOr(card, keys) == PyOr([i \in 1..Len(keys) |-> Get(card, keys[i])])

\* lines 178-181 from key i on: the loop has no break, so the last key
\* present with a truthy value gives card_air
RECURSIVE CardAirFrom(_, _, _)
CardAirFrom(card, i, card_air) ==
    IF i > Len(AirlineKeys) THEN card_air
    ELSE IF Truthy(Get(card, AirlineKeys[i]))
         THEN CardAirFrom(card, i + 1, Lower(PyStr(Get(card, AirlineKeys[i]))))
    ELSE CardAirFrom(card, i + 1, card_air)
CardAir(card) == CardAirFrom(card, 1, << >>)

\* line 182: the card passes the airline filter
AirlineOk(card, airline) == Contains(CardAir(card), airline)

\* line 187: the card passes the time filter (dep_minutes is a value here)
TimeOk(dep_minutes, after_time) == dep_minutes >= after_time

\* the comparison of line 189 with <= for <
BetterOrEqual(best, price, best_price) == best = 0 \/ price <= best_price

\* line 189: the card replaces the current best (best 0 is None)
Better(best, price, best_price) == best = 0 \/ price < best_price

\* one pass of the loop body, lines 174-188: the card's price if it
\* qualifies, None if the loop continues, Raise if the body raises
QualifyMinutes(dep_minutes, price, after_time) ==
    IF dep_minutes.st = "raise" THEN Raise
    ELSE IF dep_minutes.st = "none" THEN None
    ELSE IF TimeOk(dep_minutes.v, after_time.v) THEN price
    ELSE None
QualifyTimed(dep, price, after_time) ==
    IF dep.st = "raise" THEN Raise
    ELSE QualifyMinutes(parse_time_to_minutes(dep), price, after_time)
QualifyPriced(card, price, airline, after_time) ==
    IF price.st # "val" THEN price
    ELSE IF airline # << >> /\ ~AirlineOk(card, airline) THEN None
    ELSE IF after_time.st = "none" THEN price
    ELSE QualifyTimed(get_dep_time(card), price, after_time)
Qualify(card, airline, after_time) ==
    QualifyPriced(card, parse_price(GetOr(card, PriceKeys)), airline, after_time)

\* the loop of lines 171-191 from card i on: best is the index of the best
\* card so far (0 is None)
ScanResult(st, best, price) == [st |-> st, best |-> best, price |-> price]
RECURSIVE Scan(_, _, _, _, _, _)
Scan(ctx, i, best, best_price, airline, after_time) ==
    IF i > Len(ctx) THEN ScanResult("ok", best, best_price)
    ELSE IF Qualify(ctx[i], airline, after_time).st = "raise"
         THEN ScanResult("raise", 0, 0)
    ELSE IF /\ Qualify(ctx[i], airline, after_time).st = "val"
            /\ Better(best, Qualify(ctx[i], airline, after_time).v, best_price)
         THEN Scan(ctx, i + 1, i, Qualify(ctx[i], airline, after_time).v,
                   airline, after_time)
    ELSE Scan(ctx, i + 1, best, best_price, airline, after_time)

\* f"{x}" of a float holding an integer value
FloatText(n) == IntText(n) \o << ".", "0" >>

\* the excerpt written with str() for json.dumps
ExcerptStr(best) == PyStr(best)

\* line 197
Excerpt(best) == json_dumps(best)

Response(st, answer, excerpt) == [st |-> st, answer |-> answer, excerpt |-> excerpt]
Raised == Response("raise", JNull, JNull)
NotFound == Response("ok", JStr(NotFoundAnswer), JNull)

\* the filters of lines 162-168
AfterTime(q) ==
    IF AfterSearch(q).start > 0
    THEN parse_time_to_minutes(Val(AfterSearch(q).text)) ELSE None
Airline(q) == AirlineSearch(q).text

\* the scan of the context under the filters of the question
Chosen(qn, ctx) ==
    Scan(ctx, 1, 0, 0, Airline(Lower(qn)), AfterTime(Lower(qn)))

\* line 194
AirlineName(best) ==
    PyOr(<< Get(best, Chars["airline"]),
            Get(best, Chars["carrier"]),
            Get(best, Chars["airline_name"]),
            JStr(Chars["Unknown Airline"]) >>)

\* lines 195-198: dep is get_dep_time(best)
AnswerOf(best, best_price, airline, airline_name, dep) ==
    IF dep.st = "raise" THEN Raised
    ELSE IF airline # << >> /\ airline_name.t # "str" THEN Raised
    ELSE Response("ok",
             JStr(Chars["Cheapest flight"]
                  \o (IF airline # << >> THEN Chars[" from "] \o airline_name.s ELSE << >>)
                  \o Chars[" is "] \o PyStr(airline_name) \o Chars[", departs at "]
                  \o (IF dep.st = "val" THEN dep.v ELSE Chars["Unknown"])
                  \o Chars[", price "] \o FloatText(best_price) \o << "." >>),
             JStr(Excerpt(best)))
Answer(best, best_price, airline) ==
    AnswerOf(best, best_price, airline, AirlineName(best), get_dep_time(best))

\* lines 193-200 after the scan
MockResult(ctx, airline, scan) ==
    IF scan.st = "raise" THEN Raised
    ELSE IF scan.best # 0 THEN Answer(ctx[scan.best], scan.price, airline)
    ELSE NotFound

_mock_response(qn, ctx) ==
    IF AfterTime(Lower(qn)).st = "raise" THEN Raised
    ELSE MockResult(ctx, Airline(Lower(qn)), Chosen(qn, ctx))

----------------------------------------------------------------------------
(* The inputs explored: questions, context records, model replies.         *)


Questions ==
    { Chars["cheapest flight"],
      Chars["Which is the cheapest Air India flight after 6 pm?"],
      Chars["cheapest flight after 11 pm"],
      Chars["Cheapest IndiGo flight?"],
      Chars["any vistara flight"],
      Chars["flights after\\s\\d\\pm"],
      Chars["cheapest air\\sindia"] }

cAirIndia ==
    JObj(<< << Chars["airline"], JStr(Chars["Air India"]) >>,
            << Chars["departure_time"], JStr(Chars["7:00 PM"]) >>,
            << Chars["price"], JNum(5000) >> >>)
cIndigo ==
    JObj(<< << Chars["airline"], JStr(Chars["IndiGo"]) >>,
            << Chars["departure_time"], JStr(Chars["5:00 PM"]) >>,
            << Chars["price"], JNum(3000) >> >>)
cIndigoTie ==
    JObj(<< << Chars["carrier"], JStr(Chars["IndiGo"]) >>,
            << Chars["fare"], JNum(3000) >> >>)
cStrPrice ==
    JObj(<< << Chars["airline"], JStr(Chars["Vistara"]) >>,
            << Chars["price"], JStr(Chars["$4,500"]) >> >>)
cNoPrice ==
    JObj(<< << Chars["airline"], JStr(Chars["IndiGo"]) >>,
            << Chars["departure_time"], JStr(Chars["23:30"]) >> >>)
cTwoNames ==
    JObj(<< << Chars["airline"], JStr(Chars["IndiGo"]) >>,
            << Chars["carrier"], JStr(Chars["Vistara"]) >>,
            << Chars["amount"], JNum(1000) >> >>)
cSegInt ==
    JObj(<< << Chars["price"], JNum(2000) >>,
            << Chars["segments"], JList(<< JNum(5) >>) >> >>)
cSegObj ==
    JObj(<< << Chars["price"], JNum(4000) >>,
            << Chars["segments"],
               JList(<< JObj(<< << Chars["dep_time"], JStr(Chars["23:30"]) >> >>) >>) >> >>)
cRawPrice ==
    JObj(<< << Chars["price"], JStr(Chars["\\d"]) >> >>)
cRawAir ==
    JObj(<< << Chars["airline"], JStr(Chars["Air\\sIndia"]) >>,
            << Chars["price"], JNum(6000) >> >>)
cNumName ==
    JObj(<< << Chars["airline"], JNum(5) >>,
            << Chars["carrier"], JStr(Chars["IndiGo"]) >>,
            << Chars["price"], JNum(1) >> >>)
cFabricated ==
    JObj(<< << Chars["price"], JNum(1) >> >>)

\* the sequences of at most n elements of set
SeqsUpTo(set, n) == UNION {[1..k -> set] : k \in 0..n}

Contexts ==
    SeqsUpTo({ cAirIndia, cIndigo, cIndigoTie, cStrPrice, cNoPrice, cTwoNames,
               cSegInt, cSegObj, cRawPrice, cRawAir, cNumName }, MaxCards)

ChatQuestions == { Chars["cheapest flight"], Chars["Cheapest IndiGo flight?"] }
ChatContexts == SeqsUpTo({ cIndigo, cRawAir, cSegInt }, MaxCtx)
Sessions == { Chars["s1"], Chars["s2"] }

----------------------------------------------------------------------------
(* app/core/llm-client.py: LLMClient.get_response with the real model.     *)

\* what `await self.model.ainvoke(messages)' can give: the call fails, the
\* text parses as a JSON object (its "answer" and "excerpt" members, JNull
\* when absent), or the text is anything else
ReplyFail == [kind |-> "fail", answer |-> JNull, excerpt |-> JNull, text |-> << >>]
ReplyDict(answer, excerpt) ==
    [kind |-> "dict", answer |-> answer, excerpt |-> excerpt, text |-> << >>]
ReplyText(text) == [kind |-> "text", answer |-> JNull, excerpt |-> JNull, text |-> text]

\* a text with every blank doubled
RECURSIVE Respace(_)
Respace(s) ==
    IF s = << >> THEN << >>
    ELSE (IF s[1] = " " THEN << " ", " " >> ELSE << s[1] >>) \o Respace(Tail(s))

ReplyExcerpts(ctx) ==
    { JNull, JNum(5), JStr(json_dumps(cFabricated)) }
    \cup { JStr(json_dumps(ctx[i])) : i \in 1..Len(ctx) }
    \cup { JStr(Upper(json_dumps(ctx[i]))) : i \in 1..Len(ctx) }
    \cup { JStr(Respace(json_dumps(ctx[i]))) : i \in 1..Len(ctx) }

Replies(ctx) ==
    { ReplyFail,
      ReplyText(Chars["no idea"]),
      ReplyText(Chars["see \\{x\\} ok\\nbye"]),
      ReplyText(Chars["[1]"]) }
    \cup { ReplyDict(a, e) : a \in { JNull, JStr(Chars["ok"]) },
                             e \in ReplyExcerpts(ctx) }

\* the first and the last index at which lit occurs in s from index i on
FirstAt(s, i, lit) ==
    IF \E k \in i..Len(s) : At(s, k, lit)
    THEN CHOOSE k \in i..Len(s) :
             At(s, k, lit) /\ \A h \in i..(k - 1) : ~At(s, h, lit)
    ELSE 0
LastAt(s, i, lit) ==
    IF \E k \in i..Len(s) : At(s, k, lit)
    THEN CHOOSE k \in i..Len(s) :
             At(s, k, lit) /\ \A h \in (k + 1)..Len(s) : ~At(s, h, lit)
    ELSE 0

\* s[:n]
Prefix(s, n) == SubSeq(s, 1, IF Len(s) < n THEN Len(s) ELSE n)

AnswerLimit == 500

\* re.search(r"\\{.*\\}", raw_text, re.S): from the first backslash-brace to
\* the last closing backslash-brace after it (open is where it starts)
ExcerptFrom(raw_text, open) ==
    IF open = 0 THEN JNull
    ELSE IF LastAt(raw_text, open + 2, << "\\", "}" >>) = 0 THEN JNull
    ELSE JStr(SubSeq(raw_text, open,
                     LastAt(raw_text, open + 2, << "\\", "}" >>) + 1))
\* raw_text.strip().split("\\n")[0]: the text before the first backslash-n
AnswerLine(stripped, cut) ==
    IF cut = 0 THEN stripped ELSE SubSeq(stripped, 1, cut - 1)
_extract_answer_excerpt(raw_text) ==
    Response("ok",
        JStr(Prefix(AnswerLine(Strip(raw_text),
                               FirstAt(Strip(raw_text), 1, << "\\", "n" >>)),
                    AnswerLimit)),
        ExcerptFrom(raw_text, FirstAt(raw_text, 1, << "\\", "{" >>)))

\* x or ""
OrEmpty(x) == IF Truthy(x) THEN x ELSE JStr(<< >>)

\* lines 65-96
RealResponse(reply) ==
    CASE reply.kind = "fail" -> Response("ok", JStr(CannotProcessAnswer), JNull)
      [] reply.kind = "dict" ->
            Response("ok", OrEmpty(reply.answer), OrEmpty(reply.excerpt))
      [] OTHER -> _extract_answer_excerpt(Strip(reply.text))

----------------------------------------------------------------------------
(* app/core/redis-client.py and app/api/chat.py: the /chat handler.        *)


\* f"session:{session_id}:context"
SessionKey(session_id) == Chars["session:"] \o session_id \o Chars[":context"]
Keys == { SessionKey(s) : s \in Sessions }

NoEntry == [has |-> FALSE, val |-> << >>]
Entry(val) == [has |-> TRUE, val |-> val]

\* line 36 of redis-client.py: the value stored
StoredValue(ctx) == json_dumps(JList(ctx))

\* line 35 of chat.py
ContextBlob(ctx) == json_dumps(JList(ctx))

\* the test of line 37 without its substring check
GateNonEmpty(excerpt, context_blob) ==
    IF ~Truthy(excerpt) THEN Val(FALSE)
    ELSE IF excerpt.t # "str" THEN Raise
    ELSE Val(TRUE)

\* line 37 of chat.py: the test that lets the excerpt through; it raises
\* TypeError when the excerpt is truthy and not a str
Gate(excerpt, context_blob) ==
    IF ~Truthy(excerpt) THEN Val(FALSE)
    ELSE IF excerpt.t # "str" THEN Raise
    ELSE Val(Contains(context_blob, excerpt.s))

ChatResponse(answer, excerpt) == [answer |-> answer, excerpt |-> excerpt]
Fallback == ChatResponse(JStr(NotFoundAnswer), JNull)
NoResponse == Response("none", JNull, JNull)
NoResult == ChatResponse(JNull, JNull)


Init ==
    /\ pc = "idle"
    /\ session = << >> /\ question = << >> /\ context = << >>
    /\ store = [k \in Keys |-> NoEntry]
    /\ use_mock \in BOOLEAN
    /\ llm_calls = 0
    /\ stored_ok = "pending"
    /\ response = NoResponse
    /\ result = NoResult
    /\ iq = << >> /\ ictx = << >> /\ ires = NoResponse /\ ipc = "off"
    /\ vblob = << >> /\ vexcerpt = << >> /\ vres = FALSE /\ vpc = "off"

\* a POST /chat arrives
Receive ==
    /\ pc = "idle"
    /\ \E s \in Sessions, q \in ChatQuestions, ctx \in ChatContexts :
           /\ session' = s
           /\ question' = q
           /\ context' = ctx
    /\ pc' = "set_context"
    /\ llm_calls' = 0
    /\ stored_ok' = "pending"
    /\ response' = NoResponse
    /\ result' = NoResult
    /\ UNCHANGED << store, use_mock, mockVars, verifyVars >>

\* lines 26-27: RedisClient.set_context stores the serialized context
SetContextStored ==
    /\ pc = "set_context"
    /\ store' = [store EXCEPT ![SessionKey(session)] = Entry(StoredValue(context))]
    /\ stored_ok' = "stored"
    /\ pc' = "get_response"
    /\ UNCHANGED << session, question, context, use_mock, llm_calls, response,
                    result, mockVars, verifyVars >>

\* lines 28-29: set_context raised (the Redis call failed, or the client has
\* no set_context, as the one of redis_client.py): logged, the request goes on
SetContextFailed ==
    /\ pc = "set_context"
    /\ stored_ok' = "failed"
    /\ pc' = "get_response"
    /\ UNCHANGED << session, question, context, store, use_mock, llm_calls,
                    response, result, mockVars, verifyVars >>

\* line 32 moved before lines 26-29: the interpreter called first
GetResponseMockEarly ==
    /\ pc \in {"set_context", "get_response"}
    /\ use_mock
    /\ llm_calls' = llm_calls + 1
    /\ response' = _mock_response(question, context)
    /\ pc' = IF response'.st = "raise" THEN "error" ELSE "gate"
    /\ UNCHANGED << session, question, context, store, use_mock, stored_ok,
                    result, mockVars, verifyVars >>

\* line 32 with use_mock: _mock_response; what it raises leaves the handler
GetResponseMock ==
    /\ pc = "get_response"
    /\ use_mock
    /\ llm_calls' = llm_calls + 1
    /\ response' = _mock_response(question, context)
    /\ pc' = IF response'.st = "raise" THEN "error" ELSE "gate"
    /\ UNCHANGED << session, question, context, store, use_mock, stored_ok,
                    result, mockVars, verifyVars >>

\* line 32 with the real model
GetResponseReal ==
    /\ pc = "get_response"
    /\ ~use_mock
    /\ llm_calls' = llm_calls + 1
    /\ \E reply \in Replies(context) : response' = RealResponse(reply)
    /\ pc' = "gate"
    /\ UNCHANGED << session, question, context, store, use_mock, stored_ok,
                    result, mockVars, verifyVars >>

\* lines 35-41
Respond ==
    /\ pc = "gate"
    /\ IF Gate(response.excerpt, ContextBlob(context)).st = "raise"
       THEN pc' = "error" /\ result' = NoResult
       ELSE /\ pc' = "done"
            /\ result' = IF Gate(response.excerpt, ContextBlob(context)).v
                         THEN ChatResponse(response.answer, response.excerpt)
                         ELSE Fallback
    /\ UNCHANGED << session, question, context, store, use_mock, llm_calls,
                    stored_ok, response, mockVars, verifyVars >>

\* the handler has returned (or raised); the next request can arrive
Finish ==
    /\ pc \in {"done", "error"}
    /\ pc' = "idle"
    /\ session' = << >> /\ question' = << >> /\ context' = << >>
    /\ llm_calls' = 0
    /\ stored_ok' = "pending"
    /\ response' = NoResponse
    /\ result' = NoResult
    /\ UNCHANGED << store, use_mock, mockVars, verifyVars >>

Next ==
    \/ Receive
    \/ SetContextStored
    \/ SetContextFailed
    \/ GetResponseMock
    \/ GetResponseReal
    \/ Respond
    \/ Finish

Spec == Init /\ [][Next]_vars

----------------------------------------------------------------------------
(* One call of _mock_response on inputs drawn from Questions and Contexts. *)

InitMock ==
    /\ pc = "off"
    /\ session = << >> /\ question = << >> /\ context = << >>
    /\ store = [k \in Keys |-> NoEntry]
    /\ use_mock = TRUE
    /\ llm_calls = 0
    /\ stored_ok = "pending"
    /\ response = NoResponse
    /\ result = NoResult
    /\ iq \in Questions /\ ictx \in Contexts /\ ires = NoResponse /\ ipc = "call"
    /\ vblob = << >> /\ vexcerpt = << >> /\ vres = FALSE /\ vpc = "off"

MockCall ==
    /\ ipc = "call"
    /\ ires' = _mock_response(iq, ictx)
    /\ ipc' = IF ires'.st = "raise" THEN "raised" ELSE "returned"
    /\ UNCHANGED << iq, ictx, chatVars, verifyVars >>

NextMock == MockCall

SpecMock == InitMock /\ [][NextMock]_vars

----------------------------------------------------------------------------
(* One call of verify_excerpt on texts over a small alphabet.              *)

VerifyChars == { "a", "A", "b", " ", "\t" }

InitVerify ==
    /\ pc = "off"
    /\ session = << >> /\ question = << >> /\ context = << >>
    /\ store = [k \in Keys |-> NoEntry]
    /\ use_mock = TRUE
    /\ llm_calls = 0
    /\ stored_ok = "pending"
    /\ response = NoResponse
    /\ result = NoResult
    /\ iq = << >> /\ ictx = << >> /\ ires = NoResponse /\ ipc = "off"
    /\ vblob \in SeqsUpTo(VerifyChars, MaxBlobLen)
    /\ vexcerpt \in SeqsUpTo(VerifyChars, MaxExcerptLen)
    /\ vres = FALSE
    /\ vpc = "call"

VerifyCall ==
    /\ vpc = "call"
    /\ vres' = verify_excerpt(vblob, vexcerpt)
    /\ vpc' = "returned"
    /\ UNCHANGED << vblob, vexcerpt, chatVars, mockVars >>

NextVerify == VerifyCall

SpecVerify == InitVerify /\ [][NextVerify]_vars

----------------------------------------------------------------------------
(* Properties of verify_excerpt (checked under SpecVerify).                *)

\* every run of whitespace replaced by one blank
RECURSIVE Collapse(_)
Collapse(s) ==
    IF s = << >> THEN << >>
    ELSE IF s[1] \in WhiteSpace THEN << " " >> \o Collapse(LStrip(s))
    ELSE << s[1] >> \o Collapse(Tail(s))

CollapsedLower(s) == Collapse(Lower(s))
TrimmedCollapsedLower(s) == Collapse(Strip(Lower(s)))

\* C3 as stated: verify is true exactly when both inputs are non-empty and
\* the excerpt is a substring of the blob, either as given or after both are
\* lowercased and their whitespace runs collapsed to single blanks.
C3_AsStated ==
    vpc = "returned" =>
        vres = ( /\ vexcerpt # << >>
                 /\ vblob # << >>
                 /\ \/ Contains(vblob, vexcerpt)
                    \/ Contains(CollapsedLower(vblob), CollapsedLower(vexcerpt)) )

\* C3 amended: verify returns a boolean, true exactly when both inputs are
\* non-empty and the excerpt is a substring of the blob, either as given or
\* after both are lowercased, stripped of leading and trailing whitespace
\* and their whitespace runs collapsed to single blanks.
C3_Verify ==
    /\ vres \in BOOLEAN
    /\ vpc = "returned" =>
           vres = ( /\ vexcerpt # << >>
                    /\ vblob # << >>
                    /\ \/ Contains(vblob, vexcerpt)
                       \/ Contains(TrimmedCollapsedLower(vblob),
                                   TrimmedCollapsedLower(vexcerpt)) )

\* verify accepted an excerpt that is no exact substring and that only
\* matches once its leading or trailing whitespace is dropped
C3_Witness ==
    /\ vpc = "returned"
    /\ vres
    /\ ~Contains(vblob, vexcerpt)
    /\ ~Contains(CollapsedLower(vblob), CollapsedLower(vexcerpt))

----------------------------------------------------------------------------
(* Properties of _mock_response (checked under SpecMock).                  *)

\* C4 as stated: _mock_response never raises, whatever the question and the
\* records' field values.
C4_NeverRaises == ipc # "raised"

\* the price the spec resolves for a card: the value of the first key
\* present among price, fare, amount, when it is a number or a text holding
\* a numeric token (thousands separators dropped)
RECURSIVE FirstPresent(_, _, _)
FirstPresent(card, keys, i) ==
    IF i > Len(keys) THEN JNull
    ELSE IF HasKey(card, keys[i]) THEN Get(card, keys[i])
    ELSE FirstPresent(card, keys, i + 1)
RECURSIVE FirstDigitAt(_, _)
FirstDigitAt(s, i) ==
    IF i > Len(s) THEN 0
    ELSE IF IsDigit(s[i]) THEN i
    ELSE FirstDigitAt(s, i + 1)
NumericToken(s) ==
    IF FirstDigitAt(s, 1) = 0 THEN None
    ELSE Val(DigitsValue(SubSeq(s, FirstDigitAt(s, 1),
                 FirstDigitAt(s, 1) + Run(s, FirstDigitAt(s, 1), Digits) - 1)))
StatedPriceOf(v) ==
    IF v.t = "num" THEN Val(v.n)
    ELSE IF v.t = "str" THEN NumericToken(RemoveChar(v.s, ","))
    ELSE None
StatedPrice(card) == StatedPriceOf(FirstPresent(card, PriceKeys, 1))

HasStatedPrice(i) == StatedPrice(ictx[i]).st = "val"
StatedCheapest(i) ==
    /\ HasStatedPrice(i)
    /\ \A j \in 1..Len(ictx) :
           HasStatedPrice(j) => StatedPrice(ictx[i]).v <= StatedPrice(ictx[j]).v

\* C5 as stated: for a question with no airline or time pattern, the result
\* is a record with the lowest price among the records whose price parses
\* (a number, or a text holding a numeric token, under the first key present
\* among price, fare, amount), and the fallback exactly when no record has one.
C5_CheapestPriced ==
    (ipc = "returned" /\ iq = Chars["cheapest flight"]) =>
        IF \E i \in 1..Len(ictx) : HasStatedPrice(i)
        THEN /\ ires.st = "ok"
             /\ \E i \in 1..Len(ictx) :
                    StatedCheapest(i) /\ ires.excerpt = JStr(json_dumps(ictx[i]))
        ELSE ires = NotFound

\* the outcome of the loop body for record i of the call's context
Qualified(i) == Qualify(ictx[i], Airline(Lower(iq)), AfterTime(Lower(iq)))
FirstCheapest(i) ==
    /\ Qualified(i).st = "val"
    /\ \A j \in 1..Len(ictx) :
           Qualified(j).st = "val" =>
               \/ Qualified(i).v < Qualified(j).v
               \/ Qualified(i).v = Qualified(j).v /\ i <= j

\* C6: the record selected is the first in scan order among the qualifying
\* records of lowest price (a later record of equal price never replaces
\* the best), and the fallback is returned when no record qualifies.
C6_FirstCheapestWins ==
    ipc = "returned" =>
        IF \E i \in 1..Len(ictx) : Qualified(i).st = "val"
        THEN \E i \in 1..Len(ictx) :
                 /\ FirstCheapest(i)
                 /\ Chosen(iq, ictx).best = i
                 /\ ires.excerpt = JStr(json_dumps(ictx[i]))
        ELSE ires = NotFound

\* two different records tie on the lowest price and the earlier one is returned
C6_Witness ==
    /\ ipc = "returned"
    /\ Len(ictx) = 2
    /\ Qualified(1).st = "val" /\ Qualified(2).st = "val"
    /\ Qualified(1).v = Qualified(2).v
    /\ ictx[1] # ictx[2]
    /\ ires.excerpt = JStr(json_dumps(ictx[1]))

\* the filters a question states, read as the spec reads them: a known
\* airline name in the lowercased question ("air india" with or without the
\* blank), and "after <time>" with the time in minutes since midnight
StatedAirlines == << Chars["air india"], Chars["indigo"], Chars["spicejet"],
        Chars["vistara"], Chars["airasia"], Chars["goair"], Chars["go air"] >>
RECURSIVE StatedAirlineFrom(_, _)
StatedAirlineFrom(q, i) ==
    IF i > Len(StatedAirlines) THEN << >>
    ELSE IF Contains(q, StatedAirlines[i]) THEN StatedAirlines[i]
    ELSE StatedAirlineFrom(q, i + 1)
StatedAirline(qn) ==
    IF Contains(Lower(qn), Chars["airindia"]) THEN Chars["air india"]
    ELSE StatedAirlineFrom(Lower(qn), 1)

\* the time text after "after" and blanks: one or two digits, optionally a
\* colon and two digits, optionally blanks and am or pm
StatedTimeEnd(q, g, e) ==
    IF \/ At(q, e + Run(q, e, WhiteSpace), Chars["am"])
       \/ At(q, e + Run(q, e, WhiteSpace), Chars["pm"])
    THEN e + Run(q, e, WhiteSpace) + 2
    ELSE e
StatedTimeText(q, g, n) ==
    IF n \notin {1, 2} THEN << >>
    ELSE IF At(q, g + n, << ":" >>) /\ Run(q, g + n + 1, Digits) = 2
    THEN SubSeq(q, g, StatedTimeEnd(q, g, g + n + 3) - 1)
    ELSE SubSeq(q, g, StatedTimeEnd(q, g, g + n) - 1)
RECURSIVE StatedAfterFrom(_, _)
StatedAfterFrom(q, i) ==
    IF i > Len(q) THEN None
    ELSE IF /\ At(q, i, Chars["after"])
            /\ Run(q, i + Len(Chars["after"]), WhiteSpace) >= 1
            /\ StatedTimeText(q, i + Len(Chars["after"]) + Run(q,
                    i + Len(Chars["after"]), WhiteSpace),
                   Run(q, i + Len(Chars["after"]) + Run(q, i + Len(Chars["after"]),
                           WhiteSpace),
                       Digits)) # << >>
         THEN ParseStripped(
                  Upper(StatedTimeText(q, i + Len(Chars["after"]) + Run(q,
                          i + Len(Chars["after"]), WhiteSpace),
                      Run(q, i + Len(Chars["after"]) + Run(q, i + Len(Chars["after"]),
                              WhiteSpace),
                          Digits))),
                  << >>)
    ELSE StatedAfterFrom(q, i + 1)
StatedAfter(qn) == StatedAfterFrom(Lower(qn), 1)

\* the airline name the spec resolves for a card: the first key present
StatedAirlineName(card) == Lower(PyStr(FirstPresent(card, AirlineKeys, 1)))

\* the card satisfies every filter the question states
MeetsStatedFilters(qn, card) ==
    /\ StatedAirline(qn) # << >> =>
           Contains(StatedAirlineName(card), StatedAirline(qn))
    /\ StatedAfter(qn).st = "val" =>
           /\ get_dep_time(card).st = "val"
           /\ parse_time_to_minutes(get_dep_time(card)).st = "val"
           /\ parse_time_to_minutes(get_dep_time(card)).v >= StatedAfter(qn).v

\* C7 as stated: when the question names a known airline or holds an
\* "after <time>" phrase, the record returned satisfies every stated filter
\* (airline token within the record's airline name, departure at or after
\* the stated time), and the fallback is returned when no record does.
C7_FiltersRespected ==
    (ipc = "returned" /\ (StatedAirline(iq) # << >> \/ StatedAfter(iq).st = "val")) =>
        \/ ires = NotFound
        \/ \E i \in 1..Len(ictx) :
               /\ ires.excerpt = JStr(json_dumps(ictx[i]))
               /\ MeetsStatedFilters(iq, ictx[i])

----------------------------------------------------------------------------
(* Properties of the /chat handler (checked under Spec).                   *)

\* the handler let the interpreter's pair through
Surfaced == result.excerpt # JNull

\* C1: a response of chat_endpoint either carries an excerpt that
\* verify_excerpt accepts against the request's serialized context, or it is
\* exactly the fallback; no excerpt that fails verification is surfaced.
C1_SurfacedIsVerified ==
    pc = "done" =>
        \/ result = Fallback
        \/ /\ result.excerpt.t = "str"
           /\ verify_excerpt(ContextBlob(context), result.excerpt.s)

\* the real model's excerpt was surfaced
C1_Witness ==
    /\ pc = "done"
    /\ ~use_mock
    /\ Surfaced
    /\ verify_excerpt(ContextBlob(context), result.excerpt.s)

\* C2: an excerpt returned by _mock_response is the serialized form of the
\* chosen record, is a substring of the serialized context, passes
\* verification, and is surfaced by the handler instead of the fallback.
C2_MockExcerptSurfaced ==
    (pc \in {"gate", "done"} /\ use_mock /\ response.excerpt # JNull) =>
        /\ Chosen(question, context).best \in 1..Len(context)
        /\ response.excerpt =
               JStr(json_dumps(context[Chosen(question, context).best]))
        /\ Contains(ContextBlob(context), response.excerpt.s)
        /\ verify_excerpt(ContextBlob(context), response.excerpt.s)
        /\ pc = "done" => result = ChatResponse(response.answer, response.excerpt)

\* the mock's excerpt for the second record of a context was surfaced
C2_Witness ==
    /\ pc = "done"
    /\ use_mock
    /\ Surfaced
    /\ Chosen(question, context).best = Len(context)
    /\ result.excerpt = JStr(json_dumps(context[Len(context)]))

\* C8 as stated: every response has an answer that is a non-empty string
\* and an excerpt that is a string or absent.
C8_ResponseShape ==
    pc = "done" =>
        /\ result.answer.t = "str"
        /\ result.answer.s # << >>
        /\ result.excerpt.t \in {"str", "null"}

\* C9 as stated: the interpreter is invoked exactly once per turn, and
\* whenever it has run the store holds the request's context under the
\* session key.
C9_AsStated ==
    /\ llm_calls \in {0, 1}
    /\ pc \in {"gate", "done", "error"} => llm_calls = 1
    /\ llm_calls = 1 =>
           store[SessionKey(session)] = Entry(ContextBlob(context))

\* C9 amended: the interpreter is invoked exactly once per turn and only
\* after the attempt to store the request's context under the session key
\* has finished; when that attempt succeeded the store holds the context
\* while the interpreter runs, and when it failed the interpreter runs all
\* the same.
C9_OnceAfterStoreAttempt ==
    /\ llm_calls \in {0, 1}
    /\ pc \in {"gate", "done", "error"} => llm_calls = 1
    /\ pc \in {"idle", "set_context", "get_response"} => llm_calls = 0
    /\ llm_calls = 1 => stored_ok \in {"stored", "failed"}
    /\ (llm_calls = 1 /\ stored_ok = "stored") =>
           store[SessionKey(session)] = Entry(ContextBlob(context))

\* the interpreter has run although storing failed and the store holds
\* nothing for the session
C9_Witness ==
    /\ llm_calls = 1
    /\ stored_ok = "failed"
    /\ store[SessionKey(session)] = NoEntry

\* C10 as stated: the handler surfaces the pair exactly when verify_excerpt
\* accepts the excerpt against the serialized context, the normalized second
\* check included.
C10_GateIsVerifier ==
    pc = "done" =>
        ( Surfaced <=>
             /\ response.excerpt.t = "str"
             /\ verify_excerpt(ContextBlob(context), response.excerpt.s) )

====
